---- MODULE Spec2Model ----
(***************************************************************************)
(* Model of the aspect-ratio automator: the crop geometry of               *)
(* ImageProcessor._calculate_crop (src/utils/image_processor.py), the      *)
(* batch and single-ratio renderers built on it, and the session file      *)
(* handling of the upload / adjust / download handlers (src/app.py).       *)
(*                                                                         *)
(* Python evaluates the crop geometry in IEEE-754 binary64.  The model     *)
(* keeps that arithmetic: a double is a sign, an exponent and a 53-bit     *)
(* significand held as a hidden leading 1 and four 13-bit limbs, and every *)
(* operation rounds to nearest, ties to even, as the hardware does.        *)
(***************************************************************************)
EXTENDS Integers, Sequences, FiniteSets, TLC

(***************************************************************************)
(* Binary64 arithmetic                                                     *)
(***************************************************************************)

\* radix of one limb of a significand: 4 limbs of 13 bits = 52 fraction bits
LimbBits == 13
LimbBase == 8192

Pow2(k) == 2 ^ k

Abs(n) == IF n < 0 THEN 0 - n ELSE n

Sign(n) == IF n < 0 THEN 0 - 1 ELSE IF n > 0 THEN 1 ELSE 0

Min(a, b) == IF a < b THEN a ELSE b

Max(a, b) == IF a > b THEN a ELSE b

\* Python works out the value of an expression before it goes on with what
\* uses it.  The definitions below say so where it matters for the size of the
\* evaluation: CHOOSE r \in {F(v) : v \in {value}} : TRUE is F(value) with
\* value worked out first.

\* the number of bits of n, for 0 <= n < 2^30
BitLen(n) == CHOOSE k \in 0..30 : n < Pow2(k) /\ (k = 0 \/ Pow2(k - 1) <= n)

\* A natural number as limbs, most significant first; the first limb may
\* exceed LimbBase, the others are below it.  Limb(X, k) is the limb of weight
\* LimbBase^k, 0 beyond either end.
Limb(X, k) == IF k >= 0 /\ k < Len(X) THEN X[Len(X) - k] ELSE 0

NatBitLen(X) == BitLen(X[1]) + LimbBits * (Len(X) - 1)

NatBit(X, i) == (Limb(X, i \div LimbBits) \div Pow2(i % LimbBits)) % 2

\* the 13 bits lo .. lo+12 of X
NatWindow(X, lo) ==
    LET k == lo \div LimbBits
        off == lo % LimbBits
    IN ((Limb(X, k) \div Pow2(off))
          + (Limb(X, k + 1) % Pow2(off)) * Pow2(LimbBits - off)) % LimbBase

\* TRUE iff some bit of X below bit i is set
NatLowBits(X, i) ==
    \/ \E k \in 0..((i \div LimbBits) - 1) : Limb(X, k) # 0
    \/ Limb(X, i \div LimbBits) % Pow2(i % LimbBits) # 0

StripZeros(X) ==
    LET nz == {i \in 1..Len(X) : X[i] # 0}
        first == CHOOSE i \in nz : \A j \in nz : i <= j
    IN SubSeq(X, first, Len(X))

\* the fraction limbs f plus one unit in the last place, with the carry out
FracIncrement(f) ==
    LET c4 == f[4] + 1
        c3 == f[3] + c4 \div LimbBase
        c2 == f[2] + c3 \div LimbBase
        c1 == f[1] + c2 \div LimbBase
    IN [f |-> <<c1 % LimbBase, c2 % LimbBase, c3 % LimbBase, c4 % LimbBase>>,
        carry |-> c1 \div LimbBase]

\* the double 2^e * 1.f, or the next one up when the dropped bits (guard,
\* then rest) call for it: round to nearest, ties to even
RoundFrac(f, e, guard, rest) ==
    IF ~(guard /\ (rest \/ f[4] % 2 = 1)) THEN [e |-> e, f |-> f]
    ELSE IF FracIncrement(f).carry = 1 THEN [e |-> e + 1, f |-> <<0, 0, 0, 0>>]
    ELSE [e |-> e, f |-> FracIncrement(f).f]

\* RoundNat for an X whose leading bit is bit p
RoundAtBit(X, p, scale, sticky) ==
    RoundFrac(<<NatWindow(X, p - 13), NatWindow(X, p - 26),
                NatWindow(X, p - 39), NatWindow(X, p - 52)>>,
              p + scale, NatBit(X, p - 53) = 1,
              sticky \/ NatLowBits(X, p - 53))

\* The double nearest to (X + s) * 2^scale, where X is a nonzero natural of at
\* least 54 bits and s, a value in [0,1), is nonzero iff sticky.
RoundNat(X, scale, sticky) ==
    CHOOSE d \in {RoundAtBit(N, NatBitLen(N) - 1, scale, sticky) : N \in {X}} : TRUE

\* a / b for integers a, b >= 1, as Python's int / int (correctly rounded)
FDivPos(a, b) ==
    LET r0 == a % b
        r1 == (r0 * LimbBase) % b
        r2 == (r1 * LimbBase) % b
        r3 == (r2 * LimbBase) % b
        r4 == (r3 * LimbBase) % b
        r5 == (r4 * LimbBase) % b
        r6 == (r5 * LimbBase) % b
        r7 == (r6 * LimbBase) % b
        X == <<a \div b, (r0 * LimbBase) \div b, (r1 * LimbBase) \div b,
               (r2 * LimbBase) \div b, (r3 * LimbBase) \div b,
               (r4 * LimbBase) \div b, (r5 * LimbBase) \div b,
               (r6 * LimbBase) \div b>>
    IN RoundNat(StripZeros(X), 0 - 7 * LimbBits, r7 # 0)

\* float(n) for an integer n with 1 <= n < 2^26 (exact: n is below 2^53)
FromNat(n) == RoundNat(<<n, 0, 0, 0, 0, 0>>, 0 - 5 * LimbBits, FALSE)

\* n * q for an integer n >= 1 and a positive double q: the exact product of
\* float(n) and q, rounded once
FMulNat(n, q) ==
    LET c4 == q.f[4] * n
        c3 == q.f[3] * n + c4 \div LimbBase
        c2 == q.f[2] * n + c3 \div LimbBase
        c1 == q.f[1] * n + c2 \div LimbBase
        top == n + c1 \div LimbBase
        X == <<top, c1 % LimbBase, c2 % LimbBase, c3 % LimbBase,
               c4 % LimbBase, 0>>
    IN RoundNat(X, q.e - 52 - LimbBits, FALSE)

\* the significand 2^52 + F of a double as a natural of five limbs
Significand(q) == <<1, q.f[1], q.f[2], q.f[3], q.f[4]>>

\* X >= Y for naturals of five limbs
NatGeq(X, Y) ==
    \/ X = Y
    \/ \E i \in 1..5 : X[i] > Y[i] /\ \A j \in 1..(i - 1) : X[j] = Y[j]

\* X - Y for naturals of five limbs with X >= Y
NatSub(X, Y) ==
    LET d5 == X[5] - Y[5]
        b5 == IF d5 < 0 THEN 1 ELSE 0
        d4 == X[4] - Y[4] - b5
        b4 == IF d4 < 0 THEN 1 ELSE 0
        d3 == X[3] - Y[3] - b4
        b3 == IF d3 < 0 THEN 1 ELSE 0
        d2 == X[2] - Y[2] - b3
        b2 == IF d2 < 0 THEN 1 ELSE 0
    IN <<X[1] - Y[1] - b2, d2 + b2 * LimbBase, d3 + b3 * LimbBase,
         d4 + b4 * LimbBase, d5 + b5 * LimbBase>>

\* X * m for a natural of five limbs and a small natural m; the product
\* keeps five limbs, its first one may exceed LimbBase
NatTimes(X, m) ==
    LET c5 == X[5] * m
        c4 == X[4] * m + c5 \div LimbBase
        c3 == X[3] * m + c4 \div LimbBase
        c2 == X[2] * m + c3 \div LimbBase
    IN <<X[1] * m + c2 \div LimbBase, c2 % LimbBase, c3 % LimbBase,
         c4 % LimbBase, c5 % LimbBase>>

\* X * LimbBase for a natural of five limbs below LimbBase each
NatShiftLimb(X) == <<X[1] * LimbBase + X[2], X[3], X[4], X[5], 0>>

\* the next limb of a quotient: the largest digit d with d * D <= R, which is
\* the estimate guess or one or two below it when the first limb of D is at
\* least LimbBase / 2
DivDigit(R, D, guess) ==
    IF NatGeq(R, NatTimes(D, guess)) THEN guess
    ELSE IF NatGeq(R, NatTimes(D, guess - 1)) THEN guess - 1
    ELSE guess - 2

\* the remainder R less digit times D, and the quotient Q with digit appended
DivReduce(R, D, digit, Q) == <<NatSub(R, NatTimes(D, digit)), Append(Q, digit)>>

\* one step of long division in base LimbBase for the pair S = <<remainder,
\* quotient>>: a zero limb is brought down and the next digit taken out
DivStep(S, D) ==
    CHOOSE next \in
        {DivReduce(R, D, digit, S[2]) :
            R \in {NatShiftLimb(S[1])},
            digit \in {DivDigit(NatShiftLimb(S[1]), D,
                                Min(NatShiftLimb(S[1])[1] \div D[1], LimbBase - 1))}} : TRUE

\* the five limbs of the quotient of R by D, with the remainder before them
LongDiv(R, D) ==
    CHOOSE S5 \in {DivStep(S4, D) : S4 \in {DivStep(S3, D) : S3 \in
                  {DivStep(S2, D) : S2 \in {DivStep(S1, D) : S1 \in
                  {DivStep(<<R, <<>>>>, D)}}}}} : TRUE

\* the quotient d = <<remainder, quotient>> of a long division, rounded
RoundQuotient(d, scale) == RoundNat(d[2], scale, d[1] # <<0, 0, 0, 0, 0>>)

\* p / q for positive doubles: the significands are scaled by 4 and by 4096,
\* so that the divisor's first limb is at least LimbBase / 2 and the five
\* limbs of the quotient are 2^55 * p's significand by q's, 55 or 56 bits
FDiv(p, q) ==
    CHOOSE r \in
        {RoundQuotient(d, p.e - q.e - 55) :
            d \in {LongDiv(scaled[1], scaled[2]) :
                      scaled \in {<<NatTimes(Significand(p), 4),
                                    NatTimes(Significand(q), 4096)>>}}} : TRUE

\* n / q for an integer n >= 1 and a positive double q: float(n) / q
FNatDiv(n, q) == FDiv(FromNat(n), q)

\* p > q for positive doubles
FGreater(p, q) ==
    \/ p.e > q.e
    \/ p.e = q.e /\ \E i \in 1..4 :
          p.f[i] > q.f[i] /\ \A j \in 1..(i - 1) : p.f[j] = q.f[j]

\* int(q) for a positive double q below 2^31
FTrunc(q) ==
    IF q.e < 0 THEN 0
    ELSE IF q.e <= 13 THEN Pow2(q.e) + q.f[1] \div Pow2(13 - q.e)
    ELSE IF q.e <= 26
         THEN Pow2(q.e) + q.f[1] * Pow2(q.e - 13) + q.f[2] \div Pow2(26 - q.e)
    ELSE Pow2(q.e) + q.f[1] * Pow2(q.e - 13) + q.f[2] * Pow2(q.e - 26)
           + q.f[3] \div Pow2(39 - q.e)

(***************************************************************************)
(* The ratio table and the crop geometry                                   *)
(***************************************************************************)

\* ImageProcessor.RATIOS, in the order of the dict
RatioNames == <<"2x3", "3x4", "4x5", "ISO", "11x14">>

RATIOS ==
    [r \in {"2x3", "3x4", "4x5", "ISO", "11x14"} |->
        CASE r = "2x3" -> <<3600, 5400>>
          [] r = "3x4" -> <<2700, 3600>>
          [] r = "4x5" -> <<3600, 4500>>
          [] r = "ISO" -> <<3508, 4967>>
          [] r = "11x14" -> <<1650, 2100>>]

\* the failure result of _calculate_crop
None == <<>>

\* crop_width and crop_height for the two ratios: the side derived from the
\* target ratio is int() of a double, i.e. truncated
CropSizeFor(img_width, img_height, target_ratio, img_ratio) ==
    IF FGreater(img_ratio, target_ratio)
    THEN <<FTrunc(FMulNat(img_height, target_ratio)), img_height>>
    ELSE <<img_width, FTrunc(FNatDiv(img_width, target_ratio))>>

CropSize(img_width, img_height, target_width, target_height) ==
    CHOOSE size \in
        {CropSizeFor(img_width, img_height, ratio[1], ratio[2]) :
            ratio \in {<<FDivPos(target_width, target_height),
                         FDivPos(img_width, img_height)>>}} : TRUE

\* the offset taken as a number of pixels, as an early revision did
PixelOffsetInPixels(offset, crop_dim) == offset

\* the offset's sign lost in the conversion
PixelOffsetUnsigned(offset, crop_dim) ==
    IF offset = 0 \/ crop_dim = 0 THEN 0
    ELSE FTrunc(FMulNat(crop_dim, FDivPos(Abs(offset), 100)))

\* int((offset / 100) * crop_dim) if offset else 0
PixelOffset(offset, crop_dim) ==
    IF offset = 0 \/ crop_dim = 0 THEN 0
    ELSE CHOOSE pixels \in
             {Sign(offset) * FTrunc(FMulNat(crop_dim, part)) :
                 part \in {FDivPos(Abs(offset), 100)}} : TRUE

\* the clamp without its lower bound: min(pos, limit)
ClampNoLower(pos, limit) == Min(pos, limit)

\* the clamp without its upper bound: max(0, pos)
ClampNoUpper(pos, limit) == Max(0, pos)

\* max(0, min(pos, limit))
Clamp(pos, limit) == Max(0, Min(pos, limit))

\* the two checks that end _calculate_crop, and the box it returns
CheckedBox(img_width, img_height, crop_width, crop_height, left, top) ==
    IF left + crop_width <= left \/ top + crop_height <= top THEN None
    ELSE IF left + crop_width > img_width \/ top + crop_height > img_height
         THEN None
    ELSE <<left, top, left + crop_width, top + crop_height>>

\* the box of a crop of the given size placed without the clamp
CropBoxNoClamp(img_width, img_height, size, x_off, y_off) ==
    CheckedBox(img_width, img_height, size[1], size[2],
               (img_width - size[1]) \div 2 + PixelOffset(x_off, size[1]),
               (img_height - size[2]) \div 2 + PixelOffset(y_off, size[2]))

\* the box of a crop of the given size: centred, moved by the offsets, clamped
CropBox(img_width, img_height, size, x_off, y_off) ==
    CHOOSE box \in
        {CheckedBox(img_width, img_height, size[1], size[2], left, top) :
            left \in {Clamp((img_width - size[1]) \div 2 + PixelOffset(x_off, size[1]),
                            img_width - size[1])},
            top \in {Clamp((img_height - size[2]) \div 2 + PixelOffset(y_off, size[2]),
                           img_height - size[2])}} : TRUE

\* _calculate_crop without the clamp: a box that the offsets push over the
\* edge of the source is rejected or sticks out
CalculateCropNoClamp(img_width, img_height, target_width, target_height, x_off, y_off) ==
    CHOOSE box \in
        {CropBoxNoClamp(img_width, img_height, size, x_off, y_off) :
            size \in {CropSize(img_width, img_height, target_width, target_height)}} : TRUE

\* _calculate_crop: the box handed to image.crop, or None
CalculateCrop(img_width, img_height, target_width, target_height, x_off, y_off) ==
    CHOOSE box \in
        {CropBox(img_width, img_height, size, x_off, y_off) :
            size \in {CropSize(img_width, img_height, target_width, target_height)}} : TRUE

(***************************************************************************)
(* Files and file names                                                    *)
(*                                                                         *)
(* A file name is the sequence of its parts between underscores plus its   *)
(* extension: "s1_2x3_preview.jpg" is <<"s1", "2x3", "preview">> and "jpg". *)
(* No part holds an underscore or a dot, so two names are the same string  *)
(* iff they are the same record.                                           *)
(***************************************************************************)

FileName(parts, ext) == [parts |-> parts, ext |-> ext]

\* {session_id}_{ratio}_preview.jpg
PreviewName(session_id, ratio) == FileName(<<session_id, ratio, "preview">>, "jpg")

\* {session_id}_{ratio}_adjusted.jpg
AdjustedName(session_id, ratio) == FileName(<<session_id, ratio, "adjusted">>, "jpg")

\* base_name of process_all_ratios: what follows the first underscore of the
\* source's name, or the whole name without one, minus the extension
BaseName(image_path) ==
    IF Len(image_path.parts) > 1 THEN Tail(image_path.parts) ELSE image_path.parts

\* an output saved under the name of the source itself
SourceName(image_path, ratio) == image_path

\* {base_name}_{ratio_name}.jpg
BatchName(image_path, ratio) == FileName(Append(BaseName(image_path), ratio), "jpg")

\* A file on disk: its directory, its name, what wrote it ("original",
\* "preview", "adjusted", "batch", "zip", or "partial" for the truncated rest
\* of a failed save) and its pixel size.
File(dir, name, kind, size) == [dir |-> dir, name |-> name, kind |-> kind, size |-> size]

\* An image file: it also has the mode (img.mode) it opens in.
Picture(dir, name, kind, size, mode) ==
    [dir |-> dir, name |-> name, kind |-> kind, size |-> size, mode |-> mode]

\* A file that image.crop(box), resize and save made: it also tells the box
\* of the source its pixels come from and the mode it was saved in.
Rendered(dir, name, kind, size, box, mode) ==
    [dir |-> dir, name |-> name, kind |-> kind, size |-> size, box |-> box,
     mode |-> mode]

FileExists(files, dir, name) == \E g \in files : g.dir = dir /\ g.name = name

LookupFile(files, dir, name) == CHOOSE g \in files : g.dir = dir /\ g.name = name

\* a save that completes: the file replaces whatever had its name
WriteFile(files, f) == {g \in files : ~(g.dir = f.dir /\ g.name = f.name)} \cup {f}

\* a save that raises: a file that was there is left truncated (it was opened
\* for writing), a new one does not stay
SaveFailed(files, dir, name) ==
    IF FileExists(files, dir, name)
    THEN WriteFile(files, File(dir, name, "partial", <<0, 0>>))
    ELSE files

(***************************************************************************)
(* ImageProcessor                                                          *)
(***************************************************************************)

MAX_SOURCE_DIMENSION == 6000
MAX_MEMORY_SAFE_DIMENSION == 8000

\* the size of a w x h image scaled so that its larger side is limit; int()
\* of the double quotient (limit * other side) / larger side
ScaleToLimit(w, h, limit) ==
    IF w > h THEN <<limit, FTrunc(FDivPos(limit * h, w))>>
    ELSE <<FTrunc(FDivPos(limit * w, h)), limit>>

\* a resize that knows the memory limit only and leaves an image between the
\* two limits as it is
ResizeToSafeOnly(size) ==
    IF size[1] > MAX_MEMORY_SAFE_DIMENSION \/ size[2] > MAX_MEMORY_SAFE_DIMENSION
    THEN ScaleToLimit(size[1], size[2], MAX_MEMORY_SAFE_DIMENSION)
    ELSE size

\* _resize_if_too_large, on sizes
ResizeIfTooLarge(size) ==
    IF size[1] > MAX_MEMORY_SAFE_DIMENSION \/ size[2] > MAX_MEMORY_SAFE_DIMENSION
    THEN ScaleToLimit(size[1], size[2], MAX_MEMORY_SAFE_DIMENSION)
    ELSE IF size[1] > MAX_SOURCE_DIMENSION \/ size[2] > MAX_SOURCE_DIMENSION
         THEN ScaleToLimit(size[1], size[2], MAX_SOURCE_DIMENSION)
    ELSE size

\* the side of the thumbnail box
PreviewBox == 300

\* size of an image after thumbnail((300, 300)): unchanged if it fits, else
\* the larger side 300 and the other one the nearest integer, at least 1
Thumbnail(size) ==
    IF size[1] <= PreviewBox /\ size[2] <= PreviewBox THEN size
    ELSE IF size[2] >= size[1]
         THEN <<Max(1, (2 * PreviewBox * size[1] + size[2] - 1) \div (2 * size[2])),
                PreviewBox>>
    ELSE <<PreviewBox,
           Max(1, (2 * PreviewBox * size[2] + size[1] - 1) \div (2 * size[1]))>>

\* ImageProcessor(image_path, session_id, processed_folder); the handlers
\* keep the source image in the processed folder itself
ImageProcessor(image_path, session_id, processed_folder) ==
    [image_path |-> image_path, session_id |-> session_id,
     processed_folder |-> processed_folder]

\* Image.open(self.image_path) succeeds: the file is there and is an image
CanOpen(files, p) ==
    /\ FileExists(files, p.processed_folder, p.image_path)
    /\ LookupFile(files, p.processed_folder, p.image_path).kind
           \notin {"partial", "zip"}

\* the modes of the uploads considered: what Image.open gives for a colour
\* photo, a CMYK JPEG, a PNG with alpha, a palette PNG and a grayscale image
ImageModes == {"RGB", "CMYK", "RGBA", "P", "L"}

\* the modes among them that save(path, 'JPEG') can write; for another mode
\* it raises OSError("cannot write mode ... as JPEG")
JpegModes == {"RGB", "CMYK", "L"}

\* img.mode of the image opened from image_path; crop and resize keep it
SourceMode(files, p) == LookupFile(files, p.processed_folder, p.image_path).mode

\* a conversion that leaves every image in the mode it has
KeepMode(mode) == mode

\* resized.convert('CMYK') if img.mode == 'CMYK' else resized.convert('RGB'):
\* the mode of the image that is saved
Convert(mode) == IF mode = "CMYK" THEN "CMYK" ELSE "RGB"

\* _calculate_crop on an image of the given size; a side that the downscale
\* guard made 0 makes resize raise, which ends the ratio like a failed crop
CropOfSize(size, ratio, offsets) ==
    IF size[1] < 1 \/ size[2] < 1 THEN None
    ELSE CalculateCrop(size[1], size[2], RATIOS[ratio][1], RATIOS[ratio][2],
                       offsets[1], offsets[2])

\* open the source, _resize_if_too_large, _calculate_crop: the box cropped out
\* of the source for a ratio, or None when one of the three fails
SourceCrop(files, p, ratio, offsets) ==
    IF ~CanOpen(files, p) THEN None
    ELSE CropOfSize(ResizeIfTooLarge(
                        LookupFile(files, p.processed_folder, p.image_path).size),
                    ratio, offsets)

\* what can go wrong in one ratio besides the geometry: nothing, an exception
\* while the source is opened and decoded, an exception in save
Outcomes == {"ok", "open", "save"}

\* adjustments.get(ratio_name, {}) and its two .get(..., 0)
OffsetsOf(adjustments, ratio) ==
    IF ratio \in DOMAIN adjustments THEN adjustments[ratio] ELSE <<0, 0>>

\* a resize that only ever makes an image smaller: a crop narrower than the
\* target keeps its own size
ResizeWithoutEnlarging(box, target_size) ==
    IF box[3] - box[1] < target_size[1]
    THEN <<box[3] - box[1], box[4] - box[2]>>
    ELSE target_size

\* the size of crop_image.resize((width, height), LANCZOS): the size asked
\* for, whatever the size of the crop
Resize(box, target_size) == target_size

\* the end of one round of the loop of process_all_ratios: acc holds the
\* files and the output_files so far, box is the crop or None
StoreBatch(acc, p, ratio, outcome, box) ==
    IF outcome = "open" \/ box = None THEN acc
    ELSE IF outcome = "save"
         THEN [fs |-> SaveFailed(acc.fs, p.processed_folder,
                                 BatchName(p.image_path, ratio)),
               out |-> acc.out]
    ELSE [fs |-> WriteFile(acc.fs, Rendered(p.processed_folder,
                                            BatchName(p.image_path, ratio),
                                            "batch", Resize(box, RATIOS[ratio]), box,
                                            Convert(SourceMode(acc.fs, p)))),
          out |-> Append(acc.out, BatchName(p.image_path, ratio))]

\* the place of a ratio in RATIOS
RatioIndex(ratio) == CHOOSE i \in 1..Len(RatioNames) : RatioNames[i] = ratio

\* a round that does nothing once an earlier round has failed: the loop
\* leaving at the first failure instead of going on
ProcessRatioStopping(acc, p, ratio, offsets, outcome) ==
    IF Len(acc.out) < RatioIndex(ratio) - 1 THEN acc
    ELSE StoreBatch(acc, p, ratio, outcome, SourceCrop(acc.fs, p, ratio, offsets))

\* one round of the loop of process_all_ratios
ProcessRatio(acc, p, ratio, offsets, outcome) ==
    StoreBatch(acc, p, ratio, outcome, SourceCrop(acc.fs, p, ratio, offsets))

\* the i-th round of the loop of process_all_ratios
BatchRound(acc, p, adjustments, fail, i) ==
    ProcessRatio(acc, p, RatioNames[i], OffsetsOf(adjustments, RatioNames[i]),
                 fail[RatioNames[i]])

\* process_all_ratios(adjustments): the files afterwards and output_files;
\* the loop runs its five rounds one after the other
ProcessAllRatios(files, p, adjustments, fail) ==
    CHOOSE a5 \in {BatchRound(a4, p, adjustments, fail, 5) : a4 \in
                  {BatchRound(a3, p, adjustments, fail, 4) : a3 \in
                  {BatchRound(a2, p, adjustments, fail, 3) : a2 \in
                  {BatchRound(a1, p, adjustments, fail, 2) : a1 \in
                  {BatchRound([fs |-> files, out |-> <<>>],
                              p, adjustments, fail, 1)}}}}} : TRUE

\* what can go wrong in adjust_crop besides the geometry: nothing, an
\* exception while the source is opened, in the save of the full-size file,
\* in the save of the preview
AdjustOutcomes == {"ok", "open", "save_full", "save_preview"}

\* resized.copy() in adjust_crop: the preview is made of the image that was
\* just saved at full size, so of the same box
ResizedBox(files, p, ratio) ==
    LookupFile(files, p.processed_folder, AdjustedName(p.session_id, ratio)).box

\* and it has the mode that image was converted to
ResizedMode(files, p, ratio) ==
    LookupFile(files, p.processed_folder, AdjustedName(p.session_id, ratio)).mode

\* the preview of adjust_crop saved under a name of its own, next to the one
\* create_previews wrote
StoreAdjustedPreviewApart(files, p, ratio, outcome) ==
    IF outcome = "save_preview"
    THEN [fs |-> SaveFailed(files, p.processed_folder,
                            FileName(<<p.session_id, ratio, "adjusted", "preview">>,
                                     "jpg")),
          value |-> None]
    ELSE [fs |-> WriteFile(files, Rendered(p.processed_folder,
                                           FileName(<<p.session_id, ratio,
                                                      "adjusted", "preview">>, "jpg"),
                                           "preview", Thumbnail(RATIOS[ratio]),
                                           ResizedBox(files, p, ratio),
                                           ResizedMode(files, p, ratio))),
          value |-> FileName(<<p.session_id, ratio, "adjusted", "preview">>, "jpg")]

\* the end of adjust_crop once the full-size file is saved: the preview
StoreAdjustedPreview(files, p, ratio, outcome) ==
    IF outcome = "save_preview"
    THEN [fs |-> SaveFailed(files, p.processed_folder,
                            PreviewName(p.session_id, ratio)),
          value |-> None]
    ELSE [fs |-> WriteFile(files, Rendered(p.processed_folder,
                                           PreviewName(p.session_id, ratio),
                                           "preview", Thumbnail(RATIOS[ratio]),
                                           ResizedBox(files, p, ratio),
                                           ResizedMode(files, p, ratio))),
          value |-> PreviewName(p.session_id, ratio)]

\* adjust_crop that renders the preview only and saves no full-size file
StorePreviewOnly(files, p, ratio, outcome, box) ==
    IF outcome = "open" \/ box = None THEN [fs |-> files, value |-> None]
    ELSE [fs |-> WriteFile(files, Rendered(p.processed_folder,
                                           PreviewName(p.session_id, ratio),
                                           "preview", Thumbnail(RATIOS[ratio]), box,
                                           Convert(SourceMode(files, p)))),
          value |-> PreviewName(p.session_id, ratio)]

\* adjust_crop from the crop on: the full-size file, then the preview
StoreAdjusted(files, p, ratio, outcome, box) ==
    IF outcome = "open" \/ box = None THEN [fs |-> files, value |-> None]
    ELSE IF outcome = "save_full"
         THEN [fs |-> SaveFailed(files, p.processed_folder,
                                 AdjustedName(p.session_id, ratio)),
               value |-> None]
    ELSE StoreAdjustedPreview(
             WriteFile(files, Rendered(p.processed_folder,
                                       AdjustedName(p.session_id, ratio),
                                       "adjusted", Resize(box, RATIOS[ratio]),
                                       box, Convert(SourceMode(files, p)))),
             p, ratio, outcome)

\* adjust_crop that takes the first ratio of RATIOS for a name it does not know
AdjustCropDefaulting(files, p, ratio, offsets, outcome) ==
    IF ratio \notin DOMAIN RATIOS
    THEN StoreAdjusted(files, p, RatioNames[1], outcome,
                       SourceCrop(files, p, RatioNames[1], offsets))
    ELSE StoreAdjusted(files, p, ratio, outcome,
                       SourceCrop(files, p, ratio, offsets))

\* adjust_crop(ratio, x_offset, y_offset): the files afterwards and the
\* value returned, the preview's file name or None
AdjustCrop(files, p, ratio, offsets, outcome) ==
    IF ratio \notin DOMAIN RATIOS THEN [fs |-> files, value |-> None]
    ELSE StoreAdjusted(files, p, ratio, outcome,
                       SourceCrop(files, p, ratio, offsets))

\* f'/preview/{preview_filename}': the route of get_preview and the file name
PreviewUrl(name) == [route |-> "preview", filename |-> name]

\* the entries of the dictionary create_previews returns
PreviewEntry(name, ratio) ==
    [url |-> PreviewUrl(name), dimensions |-> RATIOS[ratio],
     preview_size |-> "300x300 px"]

PreviewError(message, ratio) == [error |-> message, dimensions |-> RATIOS[ratio]]

\* a round of create_previews that makes no entry for a ratio that failed
StorePreviewNoEntry(acc, p, ratio, outcome, box) ==
    IF outcome = "open" \/ box = None THEN acc
    ELSE IF outcome = "save" \/ SourceMode(acc.fs, p) \notin JpegModes
         THEN [fs |-> SaveFailed(acc.fs, p.processed_folder,
                                 PreviewName(p.session_id, ratio)),
               previews |-> acc.previews]
    ELSE [fs |-> WriteFile(acc.fs, Rendered(p.processed_folder,
                                            PreviewName(p.session_id, ratio),
                                            "preview", Thumbnail(RATIOS[ratio]),
                                            box, SourceMode(acc.fs, p))),
          previews |-> acc.previews @@
              (ratio :> PreviewEntry(PreviewName(p.session_id, ratio), ratio))]

\* the end of one round of the loop of create_previews: acc holds the files
\* and the previews dictionary so far, box is the centred crop or None
StorePreview(acc, p, ratio, outcome, box) ==
    IF outcome = "open" \/ box = None
    THEN [fs |-> acc.fs,
          previews |-> acc.previews @@
              (ratio :> PreviewError("Failed to create preview image", ratio))]
    ELSE IF outcome = "save" \/ SourceMode(acc.fs, p) \notin JpegModes
         THEN [fs |-> SaveFailed(acc.fs, p.processed_folder,
                                 PreviewName(p.session_id, ratio)),
               previews |-> acc.previews @@
                   (ratio :> PreviewError("exception", ratio))]
    ELSE [fs |-> WriteFile(acc.fs, Rendered(p.processed_folder,
                                            PreviewName(p.session_id, ratio),
                                            "preview", Thumbnail(RATIOS[ratio]),
                                            box, SourceMode(acc.fs, p))),
          previews |-> acc.previews @@
              (ratio :> PreviewEntry(PreviewName(p.session_id, ratio), ratio))]

\* the i-th round of the loop of create_previews
PreviewRound(acc, p, fail, i) ==
    StorePreview(acc, p, RatioNames[i], fail[RatioNames[i]],
                 SourceCrop(acc.fs, p, RatioNames[i], <<0, 0>>))

\* create_previews(): the files afterwards and the previews dictionary
CreatePreviews(files, p, fail) ==
    CHOOSE a5 \in {PreviewRound(a4, p, fail, 5) : a4 \in
                  {PreviewRound(a3, p, fail, 4) : a3 \in
                  {PreviewRound(a2, p, fail, 3) : a2 \in
                  {PreviewRound(a1, p, fail, 2) : a1 \in
                  {PreviewRound([fs |-> files, previews |-> <<>>],
                                p, fail, 1)}}}}} : TRUE

(***************************************************************************)
(* State                                                                   *)
(***************************************************************************)

VARIABLES
    img_size,       \* image.size of the image handed to _calculate_crop
    target,         \* <<target_width, target_height>> of the call
    x_offset,       \* x_offset of the last call
    y_offset,       \* y_offset of the last call
    crop_result,    \* what the last call returned: a box or None
    crop_called,    \* TRUE once _calculate_crop has been called
    fs,             \* the files on disk
    proc,           \* the ImageProcessor that was constructed last
    ret,            \* the last call of a method of proc and what it returned,
                    \* or the call that is under way and how far it has got
    calls,          \* how many methods of ImageProcessor objects were called
    sessions,       \* the session ids upload_file has issued
    response,       \* the last request and the response to it
    requests        \* how many requests the handlers have served

cropVars == <<img_size, target, x_offset, y_offset, crop_result, crop_called>>

procVars == <<fs, proc, ret, calls>>

appVars == <<sessions, response, requests>>

vars == <<cropVars, procVars, appVars>>

\* no processor yet, no call yet, no request yet
NoProcessor == [image_path |-> FileName(<<>>, ""), session_id |-> "",
                processed_folder |-> <<>>]

NoCall == [op |-> "none"]

NoRequest == [op |-> "none"]

\* the crop machine stands still
CropIdle ==
    /\ img_size = <<1, 1>>
    /\ target = <<1, 1>>
    /\ x_offset = 0
    /\ y_offset = 0
    /\ crop_result = None
    /\ crop_called = FALSE

\* nothing on disk and no processor
ProcIdle ==
    /\ fs = {}
    /\ proc = NoProcessor
    /\ ret = NoCall
    /\ calls = 0

\* no request served
AppIdle ==
    /\ sessions = {}
    /\ response = NoRequest
    /\ requests = 0

(***************************************************************************)
(* _calculate_crop as a machine: one source image and one target, cropped  *)
(* first centred (the default offsets of create_previews) and then again   *)
(* each time one of the two offset sliders moves.                          *)
(***************************************************************************)

\* sources go up to MaxDim x MaxDim pixels, plus three larger ones
MaxDim == 3

\* the offsets tried reach MaxOffset on either side, beyond the sliders' 100
MaxOffset == 150

SourceSizes ==
    {<<w, h>> : w \in 1..MaxDim, h \in 1..MaxDim}
        \cup {<<4000, 3000>>, <<3000, 4000>>, <<16, 55>>}

TargetSizes == {RATIOS[r] : r \in DOMAIN RATIOS} \cup {<<3, 11>>, <<1, 1>>}

OffsetValues == {0 - MaxOffset, 0 - 100, 0 - 29, 0, 29, 50, 100, MaxOffset}

InitCrop ==
    /\ img_size \in SourceSizes
    /\ target \in TargetSizes
    /\ x_offset = 0
    /\ y_offset = 0
    /\ crop_result = None
    /\ crop_called = FALSE
    /\ ProcIdle
    /\ AppIdle

\* _calculate_crop(img, width, height): both offsets at their default
CropCentered ==
    /\ ~crop_called
    /\ crop_called' = TRUE
    /\ crop_result' = CalculateCrop(img_size[1], img_size[2],
                                    target[1], target[2], 0, 0)
    /\ UNCHANGED <<img_size, target, x_offset, y_offset, procVars, appVars>>

\* _calculate_crop(img, width, height, x, y_offset): the x slider moved to x
CropAtX(x) ==
    /\ crop_called
    /\ x # x_offset
    /\ x_offset' = x
    /\ crop_result' = CalculateCrop(img_size[1], img_size[2],
                                    target[1], target[2], x, y_offset)
    /\ UNCHANGED <<img_size, target, y_offset, crop_called, procVars, appVars>>

\* _calculate_crop(img, width, height, x_offset, y): the y slider moved to y
CropAtY(y) ==
    /\ crop_called
    /\ y # y_offset
    /\ y_offset' = y
    /\ crop_result' = CalculateCrop(img_size[1], img_size[2],
                                    target[1], target[2], x_offset, y)
    /\ UNCHANGED <<img_size, target, x_offset, crop_called, procVars, appVars>>

NextCrop ==
    \/ CropCentered
    \/ \E x \in OffsetValues : CropAtX(x)
    \/ \E y \in OffsetValues : CropAtY(y)

SpecCrop == InitCrop /\ [][NextCrop]_vars

\* the box of the last call, by side
Left == crop_result[1]
Top == crop_result[2]
Right == crop_result[3]
Bottom == crop_result[4]
CropWidth == Right - Left
CropHeight == Bottom - Top

InSliderRange(o) == 0 - 100 <= o /\ o <= 100

(***************************************************************************)
(* Properties of _calculate_crop, checked under SpecCrop                   *)
(***************************************************************************)

\* C1: for a source and a target whose four dimensions are all positive and
\* offsets within [-100, 100], _calculate_crop returns a box, never None.
C1_NeverNone ==
    (/\ crop_called
     /\ InSliderRange(x_offset)
     /\ InSliderRange(y_offset)) => crop_result # None

\* C2: every box _calculate_crop returns lies inside the source:
\* 0 <= left < right <= source width and 0 <= top < bottom <= source height.
C2_BoxInsideSource ==
    (crop_called /\ crop_result # None) =>
        /\ 0 <= Left /\ Left < Right /\ Right <= img_size[1]
        /\ 0 <= Top /\ Top < Bottom /\ Bottom <= img_size[2]

\* a box pushed by a negative x offset all the way to the left edge of a
\* source that is wider than the crop
C2_Witness ==
    /\ crop_called
    /\ crop_result # None
    /\ x_offset < 0
    /\ Left = 0
    /\ Right < img_size[1]

C4_Example ==
    (/\ crop_called
     /\ img_size = <<4000, 3000>>
     /\ target = <<3600, 5400>>
     /\ y_offset = 0) =>
        /\ x_offset = 0 => crop_result = <<1000, 0, 3000, 3000>>
        /\ x_offset = 50 => crop_result = <<2000, 0, 4000, 3000>>

C4_Witness ==
    /\ crop_called
    /\ img_size = <<4000, 3000>>
    /\ target = <<3600, 5400>>
    /\ x_offset = 50
    /\ y_offset = 0
    /\ crop_result = <<2000, 0, 4000, 3000>>

\* C5: with source and target fixed, the left edge never decreases when
\* x_offset grows within [-100, 100], stays within [0, source width - crop
\* width], and once at a bound stays there for every more extreme offset; the
\* same holds for the top edge and y_offset.
C5_OffsetMonotone ==
    [][(/\ crop_called
        /\ crop_result # None
        /\ crop_result' # None
        /\ InSliderRange(x_offset) /\ InSliderRange(x_offset')
        /\ InSliderRange(y_offset) /\ InSliderRange(y_offset')) =>
          /\ (y_offset' = y_offset /\ x_offset' >= x_offset) =>
                /\ crop_result'[1] >= Left
                /\ crop_result'[1] <= img_size[1] - CropWidth
                /\ Left = img_size[1] - CropWidth =>
                      crop_result'[1] = img_size[1] - CropWidth
          /\ (y_offset' = y_offset /\ x_offset' <= x_offset) =>
                /\ crop_result'[1] <= Left
                /\ crop_result'[1] >= 0
                /\ Left = 0 => crop_result'[1] = 0
          /\ (x_offset' = x_offset /\ y_offset' >= y_offset) =>
                /\ crop_result'[2] >= Top
                /\ crop_result'[2] <= img_size[2] - CropHeight
                /\ Top = img_size[2] - CropHeight =>
                      crop_result'[2] = img_size[2] - CropHeight
          /\ (x_offset' = x_offset /\ y_offset' <= y_offset) =>
                /\ crop_result'[2] <= Top
                /\ crop_result'[2] >= 0
                /\ Top = 0 => crop_result'[2] = 0]_vars

\* a box moved right of centre by a positive x offset without reaching the
\* right bound
C5_Witness ==
    /\ crop_called
    /\ crop_result # None
    /\ x_offset > 0
    /\ x_offset <= 100
    /\ Left > (img_size[1] - CropWidth) \div 2
    /\ Left < img_size[1] - CropWidth

\* C6: when the crop spans the whole source on an axis, moving that axis'
\* offset from 0 to +100 or -100 returns the same box.
C6_FullSpanIgnoresOffset ==
    [][(crop_called /\ crop_result # None) =>
          /\ (/\ CropWidth = img_size[1]
              /\ x_offset = 0
              /\ x_offset' \in {100, 0 - 100}
              /\ y_offset' = y_offset) => crop_result' = crop_result
          /\ (/\ CropHeight = img_size[2]
              /\ y_offset = 0
              /\ y_offset' \in {100, 0 - 100}
              /\ x_offset' = x_offset) => crop_result' = crop_result]_vars

\* a box as wide as a source of more than one pixel, returned for x_offset 100
C6_Witness ==
    /\ crop_called
    /\ crop_result # None
    /\ x_offset = 100
    /\ CropWidth = img_size[1]
    /\ img_size[1] > 1

\* C7: if _calculate_crop returns a box at offsets (0, 0), it returns a box
\* of the same width and height at every integer offset pair, also outside
\* [-100, 100], placed within the source.
C7_OffsetNeverFails ==
    LET centered == CalculateCrop(img_size[1], img_size[2],
                                  target[1], target[2], 0, 0)
    IN (crop_called /\ centered # None) =>
          /\ crop_result # None
          /\ CropWidth = centered[3] - centered[1]
          /\ CropHeight = centered[4] - centered[2]
          /\ 0 <= Left /\ Left <= img_size[1] - CropWidth
          /\ 0 <= Top /\ Top <= img_size[2] - CropHeight

\* a box returned for an x offset beyond the slider range, held at the right
\* edge of a source wider than the crop
C7_Witness ==
    /\ crop_called
    /\ crop_result # None
    /\ x_offset > 100
    /\ y_offset < 0 - 100
    /\ Right = img_size[1]
    /\ Left > 0

(***************************************************************************)
(* Sessions as upload_file sets them up                                    *)
(***************************************************************************)

\* the session ids of the model, as uuid4 hands them out: the first eight
\* characters of an id are its first group of hexadecimal digits, and two ids
\* can have that group in common
SessionIds == {"3f2a9c1e-a", "3f2a9c1e-b", "7d04b6aa-c"}

\* session_id[:8]
FirstEight(session_id) ==
    CASE session_id \in {"3f2a9c1e-a", "3f2a9c1e-b"} -> "3f2a9c1e"
      [] session_id = "7d04b6aa-c" -> "7d04b6aa"
      [] OTHER -> session_id

\* get_temp_directory(session_id): ara_{session_id[:8]} in the temp directory
TempDirectory(session_id) == <<"ara", FirstEight(session_id)>>

\* datetime.now().strftime('%Y%m%d_%H%M%S'), two parts of a file name
Timestamp == <<"20261102", "101010">>

\* get_session_file_path: {session_id}_{timestamp}_{clean_name}
SessionFilePath(session_id, upload) ==
    FileName(<<session_id>> \o Timestamp \o upload.parts, upload.ext)

\* the processor upload_file constructs for an upload
UploadProcessor(session_id, upload) ==
    ImageProcessor(SessionFilePath(session_id, upload), session_id,
                   TempDirectory(session_id))

\* the upload as upload_file saves it
OriginalIn(session_id, upload, size, mode) ==
    Picture(TempDirectory(session_id), SessionFilePath(session_id, upload),
            "original", size, mode)

\* an upload that opens in mode RGB
OriginalFile(session_id, upload, size) == OriginalIn(session_id, upload, size, "RGB")

Ratios == DOMAIN RATIOS

(***************************************************************************)
(* process_all_ratios alone: one processor on one upload, called once with *)
(* any adjustments of BatchAdjustments and any of the 3^5 ways in which    *)
(* the five ratios can fail.                                               *)
(***************************************************************************)

BatchSources == {<<4000, 3000>>, <<3000, 4000>>, <<9000, 6000>>, <<3, 1>>}

BatchAdjustments ==
    {<<>>,
     "2x3" :> <<50, 0 - 29>>,
     ("3x4" :> <<100, 0>>) @@ ("ISO" :> <<0 - 100, 100>>)}

Photo == FileName(<<"photo">>, "jpg")

InitBatch ==
    /\ CropIdle
    /\ AppIdle
    /\ fs \in {{OriginalFile("3f2a9c1e-a", Photo, size)} : size \in BatchSources}
    /\ proc = UploadProcessor("3f2a9c1e-a", Photo)
    /\ ret = NoCall
    /\ calls = 0

\* proc.process_all_ratios(adjustments)
CallProcessAllRatios(adjustments, fail) ==
    /\ \E r \in {ProcessAllRatios(fs, proc, adjustments, fail)} :
           /\ fs' = r.fs
           /\ ret' = [op |-> "process_all_ratios", adjustments |-> adjustments,
                      fail |-> fail, value |-> r.out]
    /\ calls' = calls + 1
    /\ UNCHANGED <<proc, cropVars, appVars>>

NextBatch ==
    /\ calls = 0
    /\ \E adjustments \in BatchAdjustments, fail \in [Ratios -> Outcomes] :
           CallProcessAllRatios(adjustments, fail)

SpecBatch == InitBatch /\ [][NextBatch]_vars

\* the ratio a name of output_files was written for
RatioOfOutput(name) ==
    CHOOSE i \in DOMAIN RatioNames : BatchName(proc.image_path, RatioNames[i]) = name

\* the ratio went through in the call ret records: nothing was raised and the
\* crop of the source is a box
WentThrough(ratio) ==
    /\ ret.fail[ratio] = "ok"
    /\ SourceCrop(fs, proc, ratio, OffsetsOf(ret.adjustments, ratio)) # None

\* C8: a ratio that fails inside process_all_ratios, by an exception or by a
\* crop that is None, does not stop the others: the list returned holds the
\* output paths of exactly the ratios that went through, in the order of
\* RATIOS, and each of them is on disk at its target size.
C8_BatchIsolation ==
    ret.op = "process_all_ratios" =>
        /\ \A k \in DOMAIN ret.value :
               \E r \in Ratios : ret.value[k] = BatchName(proc.image_path, r)
        /\ \A r \in Ratios :
               (\E k \in DOMAIN ret.value :
                    ret.value[k] = BatchName(proc.image_path, r))
                   <=> WentThrough(r)
        /\ \A k, l \in DOMAIN ret.value :
               k < l => RatioOfOutput(ret.value[k]) < RatioOfOutput(ret.value[l])
        /\ \A k \in DOMAIN ret.value :
               LookupFile(fs, proc.processed_folder, ret.value[k]).kind = "batch"
        /\ \A r \in Ratios :
               WentThrough(r) =>
                   LookupFile(fs, proc.processed_folder,
                              BatchName(proc.image_path, r)).size = RATIOS[r]

\* the first ratio went through, the second raised in save, the third raised
\* while opening, the last two went through and are the rest of the list
C8_Witness ==
    /\ ret.op = "process_all_ratios"
    /\ ret.fail["3x4"] = "save"
    /\ ret.fail["4x5"] = "open"
    /\ ret.value = <<BatchName(proc.image_path, "2x3"),
                     BatchName(proc.image_path, "ISO"),
                     BatchName(proc.image_path, "11x14")>>

\* n is an integer nearest to the quotient num / den of two positive integers
NearestTo(n, num, den) ==
    /\ 2 * (n * den - num) <= den
    /\ 2 * (num - n * den) <= den

\* C22: the crop side derived from the target ratio is the nearest integer
\* to its exact value: for a source relatively wider than the target the crop
\* width is round(source height * target width / target height), otherwise
\* the crop height is round(source width * target height / target width), for
\* every source size and every ratio of RATIOS.
C22_DerivedSideIsRounded ==
    (/\ crop_called
     /\ crop_result # None
     /\ target \in {RATIOS[r] : r \in DOMAIN RATIOS}) =>
        IF img_size[1] * target[2] > img_size[2] * target[1]
        THEN NearestTo(crop_result[3] - crop_result[1],
                       img_size[2] * target[1], target[2])
        ELSE NearestTo(crop_result[4] - crop_result[2],
                       img_size[1] * target[2], target[1])

(***************************************************************************)
(* One ImageProcessor on one upload, its three public methods called in    *)
(* any order, at most MaxCalls times in all.                               *)
(***************************************************************************)

MaxCalls == 2

ProcSources == {<<4000, 3000>>, <<3, 1>>}

\* a name that is not in RATIOS
InvalidRatio == "16x9"

AdjustOffsets == {<<0, 0>>, <<50, 0 - 29>>}

ProcAdjustments == {<<>>, "2x3" :> <<50, 0 - 29>>}

\* nothing is raised, or one of two ratios raises
ProcFailures ==
    {[r \in Ratios |-> IF r = q THEN o ELSE "ok"] :
         q \in {"2x3", "ISO"}, o \in Outcomes}

InitProc ==
    /\ CropIdle
    /\ AppIdle
    /\ fs \in {{OriginalFile("3f2a9c1e-a", Photo, size)} : size \in ProcSources}
    /\ proc = UploadProcessor("3f2a9c1e-a", Photo)
    /\ ret = NoCall
    /\ calls = 0

\* proc.create_previews()
CallCreatePreviews(fail) ==
    /\ \E r \in {CreatePreviews(fs, proc, fail)} :
           /\ fs' = r.fs
           /\ ret' = [op |-> "create_previews", fail |-> fail, value |-> r.previews]
    /\ calls' = calls + 1
    /\ UNCHANGED <<proc, cropVars, appVars>>

\* proc.adjust_crop(ratio, x_offset, y_offset)
CallAdjustCrop(ratio, offsets, outcome) ==
    /\ \E r \in {AdjustCrop(fs, proc, ratio, offsets, outcome)} :
           /\ fs' = r.fs
           /\ ret' = [op |-> "adjust_crop", ratio |-> ratio, offsets |-> offsets,
                      outcome |-> outcome, value |-> r.value]
    /\ calls' = calls + 1
    /\ UNCHANGED <<proc, cropVars, appVars>>

NextProc ==
    /\ calls < MaxCalls
    /\ \/ \E fail \in ProcFailures : CallCreatePreviews(fail)
       \/ \E ratio \in Ratios \cup {InvalidRatio}, offsets \in AdjustOffsets,
             outcome \in AdjustOutcomes :
              CallAdjustCrop(ratio, offsets, outcome)
       \/ \E adjustments \in ProcAdjustments, fail \in ProcFailures :
              CallProcessAllRatios(adjustments, fail)

SpecProc == InitProc /\ [][NextProc]_vars

\* the full-resolution files on disk for a ratio: what adjust_crop and
\* process_all_ratios saved at the ratio's target size
FullSizeFiles(ratio) ==
    {f \in fs : f.kind \in {"adjusted", "batch"} /\ f.size = RATIOS[ratio]}

\* C10: after any calls of adjust_crop and process_all_ratios for a session,
\* a ratio has at most one full-resolution file on disk, and it is the one
\* named {session_id}_{ratio}_adjusted.jpg.
C10_OneFullSizeFilePerRatio ==
    \A r \in Ratios :
        /\ Cardinality(FullSizeFiles(r)) <= 1
        /\ \A f \in FullSizeFiles(r) : f.name = AdjustedName(proc.session_id, r)

\* the previews on disk for a ratio: what create_previews and adjust_crop
\* saved at the size of the ratio's thumbnail
PreviewFiles(ratio) ==
    {f \in fs : f.kind = "preview" /\ f.size = Thumbnail(RATIOS[ratio])}

\* C11: after any calls of create_previews and adjust_crop, a ratio has at
\* most one preview on disk, and it is the one named
\* {session_id}_{ratio}_preview.jpg: adjust_crop writes over the preview of
\* create_previews and makes no second file.
C11_OnePreviewPerRatio ==
    \A r \in Ratios :
        /\ Cardinality(PreviewFiles(r)) <= 1
        /\ \A f \in PreviewFiles(r) :
               /\ f.dir = proc.processed_folder
               /\ f.name = FileName(<<proc.session_id, r, "preview">>, "jpg")

\* adjust_crop has returned the preview of 2x3 after create_previews had
\* written one, and it is the only preview of 2x3
C11_Witness ==
    /\ calls = 2
    /\ ret.op = "adjust_crop"
    /\ ret.ratio = "2x3"
    /\ ret.value = FileName(<<proc.session_id, "2x3", "preview">>, "jpg")
    /\ Cardinality(PreviewFiles("2x3")) = 1
    /\ \A r \in Ratios : PreviewFiles(r) # {}

\* the files adjust_crop and process_all_ratios have saved in full for a
\* ratio, by their names
OutputsOf(ratio) ==
    {f \in fs : /\ f.dir = proc.processed_folder
                /\ f.name \in {AdjustedName(proc.session_id, ratio),
                               BatchName(proc.image_path, ratio)}
                /\ f.kind # "partial"}

\* C19: every full-resolution file that adjust_crop or process_all_ratios has
\* written for a ratio has exactly the width and height RATIOS gives for the
\* ratio, whatever the source size and the offsets, also when the crop taken
\* from the source is smaller than the target.
C19_OutputHasTargetSize ==
    \A r \in Ratios : \A f \in OutputsOf(r) : f.size = RATIOS[r]

\* both methods have written 2x3 from a crop narrower than 3600 pixels, and
\* both files are 3600 x 5400
C19_Witness ==
    /\ \E f \in OutputsOf("2x3") :
           /\ f.kind = "adjusted"
           /\ f.box[3] - f.box[1] < RATIOS["2x3"][1]
           /\ f.size = <<3600, 5400>>
    /\ \E f \in OutputsOf("2x3") :
           /\ f.kind = "batch"
           /\ f.box[4] - f.box[2] < RATIOS["2x3"][2]
           /\ f.size = <<3600, 5400>>

\* the centred preview of a ratio was made in the call ret records: nothing
\* was raised and the centred crop of the source is a box
PreviewMade(ratio) ==
    /\ ret.fail[ratio] = "ok"
    /\ SourceCrop(fs, proc, ratio, <<0, 0>>) # None
    /\ SourceMode(fs, proc) \in JpegModes

\* C15: the map create_previews returns has exactly the five ratio names as
\* keys.  The value of a ratio whose preview was made has the keys url,
\* dimensions and preview_size, its url is /preview/ followed by
\* {session_id}_{ratio}_preview.jpg, and that file is on disk; the value of a
\* ratio that failed has the keys error and dimensions; the failure of one
\* ratio leaves the entries of the others as they are without it.
C15_PreviewMap ==
    ret.op = "create_previews" =>
        /\ DOMAIN ret.value = Ratios
        /\ \A r \in Ratios :
               /\ ret.value[r].dimensions = RATIOS[r]
               /\ PreviewMade(r) =>
                      /\ DOMAIN ret.value[r] = {"url", "dimensions", "preview_size"}
                      /\ ret.value[r].url =
                             [route |-> "preview",
                              filename |-> FileName(<<proc.session_id, r, "preview">>,
                                                    "jpg")]
                      /\ ret.value[r].preview_size = "300x300 px"
                      /\ PreviewFiles(r) # {}
               /\ ~PreviewMade(r) =>
                      DOMAIN ret.value[r] = {"error", "dimensions"}

\* create_previews with an exception in the save of 2x3: an error entry for
\* 2x3, an entry with a url for each of the four others
C15_Witness ==
    /\ ret.op = "create_previews"
    /\ ret.fail["2x3"] = "save"
    /\ "error" \in DOMAIN ret.value["2x3"]
    /\ \A r \in Ratios \ {"2x3"} : "url" \in DOMAIN ret.value[r]

\* C13: a call of adjust_crop(ratio, x_offset, y_offset) that succeeds is for
\* a ratio of RATIOS, returns the file name {session_id}_{ratio}_preview.jpg,
\* has on disk {session_id}_{ratio}_adjusted.jpg at the target size and that
\* preview at thumbnail size, both made of the crop of the source at the
\* offsets of the call, and has changed no other file.
C13_AdjustWritesBoth ==
    [][(/\ calls' = calls + 1
        /\ ret'.op = "adjust_crop"
        /\ ret'.value # None) =>
          /\ ret'.ratio \in Ratios
          /\ ret'.value = FileName(<<proc.session_id, ret'.ratio, "preview">>, "jpg")
          /\ Rendered(proc.processed_folder,
                      FileName(<<proc.session_id, ret'.ratio, "adjusted">>, "jpg"),
                      "adjusted", RATIOS[ret'.ratio],
                      SourceCrop(fs, proc, ret'.ratio, ret'.offsets),
                      Convert(SourceMode(fs, proc))) \in fs'
          /\ Rendered(proc.processed_folder,
                      FileName(<<proc.session_id, ret'.ratio, "preview">>, "jpg"),
                      "preview", Thumbnail(RATIOS[ret'.ratio]),
                      SourceCrop(fs, proc, ret'.ratio, ret'.offsets),
                      Convert(SourceMode(fs, proc))) \in fs'
          /\ \A f \in (fs' \ fs) \cup (fs \ fs') :
                 f.name \in {FileName(<<proc.session_id, ret'.ratio, "adjusted">>, "jpg"),
                             FileName(<<proc.session_id, ret'.ratio, "preview">>, "jpg")}
       ]_vars

\* adjust_crop has succeeded for 2x3 at offsets (50, -29) after create_previews
\* had made the five centred previews: the preview of 2x3 is now of the moved
\* box, the previews of the other ratios are still there
C13_Witness ==
    /\ calls = 2
    /\ ret.op = "adjust_crop"
    /\ ret.ratio = "2x3"
    /\ ret.offsets = <<50, 0 - 29>>
    /\ ret.value = PreviewName(proc.session_id, "2x3")
    /\ LookupFile(fs, proc.processed_folder, PreviewName(proc.session_id, "2x3")).box
           = <<2000, 0, 4000, 3000>>
    /\ \A r \in Ratios : FileExists(fs, proc.processed_folder,
                                    PreviewName(proc.session_id, r))

\* C16: adjust_crop called with a ratio name that is not in RATIOS returns
\* None and leaves every file as it was: no preview and no full-resolution
\* file is created, replaced or removed.
C16_InvalidRatioIsRejected ==
    [][(/\ calls' = calls + 1
        /\ ret'.op = "adjust_crop"
        /\ ret'.ratio \notin {"2x3", "3x4", "4x5", "ISO", "11x14"}) =>
          /\ ret'.value = None
          /\ fs' = fs]_vars

\* adjust_crop('16x9', 50, -29) has returned None after create_previews had
\* made its five previews, which are still there
C16_Witness ==
    /\ calls = 2
    /\ ret.op = "adjust_crop"
    /\ ret.ratio = "16x9"
    /\ ret.offsets = <<50, 0 - 29>>
    /\ ret.value = None
    /\ \A r \in Ratios : PreviewFiles(r) # {}
    /\ \A f \in fs : f.kind \in {"original", "preview"}

\* the files on disk under the two names adjust_crop writes for a ratio
AdjustPair(files, ratio) ==
    {f \in files : /\ f.dir = proc.processed_folder
                   /\ f.name \in {AdjustedName(proc.session_id, ratio),
                                  PreviewName(proc.session_id, ratio)}}

\* C25: adjust_crop is all-or-nothing on its two files: a call that returns
\* None, whatever the step that failed, the save of the preview included, has
\* neither created nor replaced {session_id}_{ratio}_adjusted.jpg or
\* {session_id}_{ratio}_preview.jpg, so the pair on disk is the one that was
\* there before the call.
C25_AdjustIsAllOrNothing ==
    [][(/\ calls' = calls + 1
        /\ ret'.op = "adjust_crop"
        /\ ret'.value = None
        /\ ret'.ratio \in Ratios) =>
           AdjustPair(fs', ret'.ratio) = AdjustPair(fs, ret'.ratio)]_vars

(***************************************************************************)
(* The three methods on uploads whose own names look like the names of the *)
(* files the methods write.                                                 *)
(***************************************************************************)

FrameUploads ==
    {Photo,
     FileName(<<"2x3", "preview">>, "jpg"),
     FileName(<<"2x3", "adjusted">>, "jpg"),
     FileName(<<"photo", "2x3">>, "jpg")}

InitFrame ==
    /\ CropIdle
    /\ AppIdle
    /\ \E upload \in FrameUploads, size \in ProcSources :
           /\ fs = {OriginalFile("3f2a9c1e-a", upload, size)}
           /\ proc = UploadProcessor("3f2a9c1e-a", upload)
    /\ ret = NoCall
    /\ calls = 0

SpecFrame == InitFrame /\ [][NextProc]_vars

\* the file at image_path
SourceFile(files) == LookupFile(files, proc.processed_folder, proc.image_path)

\* C24: no call of create_previews, adjust_crop or process_all_ratios on an
\* ImageProcessor whose image_path is the upload {session_id}_{timestamp}_
\* {name} writes to image_path: every file a call writes has a name other
\* than the source's, and the upload is after the call what it was before.
C24_UploadIsNeverOverwritten ==
    [][/\ \A f \in fs' \ fs :
              ~(f.dir = proc.processed_folder /\ f.name = proc.image_path)
       /\ SourceFile(fs') = SourceFile(fs)]_vars

\* the upload 2x3_preview.jpg is untouched after create_previews and
\* process_all_ratios have written their files next to it
C24_Witness ==
    /\ calls = 2
    /\ proc.image_path = SessionFilePath("3f2a9c1e-a",
                                         FileName(<<"2x3", "preview">>, "jpg"))
    /\ SourceFile(fs).kind = "original"
    /\ SourceFile(fs).size = <<4000, 3000>>
    /\ \E f \in fs : f.kind = "preview" /\ f.name = PreviewName(proc.session_id, "2x3")
    /\ \E f \in fs : f.kind = "batch" /\ f.name = BatchName(proc.image_path, "2x3")

(***************************************************************************)
(* The three methods on uploads of every mode.                              *)
(***************************************************************************)

InitMode ==
    /\ CropIdle
    /\ AppIdle
    /\ fs \in {{OriginalIn("3f2a9c1e-a", Photo, size, mode)} :
                   size \in ProcSources, mode \in ImageModes}
    /\ proc = UploadProcessor("3f2a9c1e-a", Photo)
    /\ ret = NoCall
    /\ calls = 0

SpecMode == InitMode /\ [][NextProc]_vars

\* C23: every full-resolution file that process_all_ratios or adjust_crop has
\* written is in mode CMYK when the source opens in mode CMYK, and in mode
\* RGB for a source of any other mode.
C23_OutputModeFollowsSource ==
    \A r \in Ratios : \A f \in OutputsOf(r) :
        f.mode = IF SourceFile(fs).mode = "CMYK" THEN "CMYK" ELSE "RGB"

\* both methods have written 2x3 from a palette source, in RGB
C23_Witness ==
    /\ SourceFile(fs).mode = "P"
    /\ \E f \in OutputsOf("2x3") : f.kind = "adjusted" /\ f.mode = "RGB"
    /\ \E f \in OutputsOf("2x3") : f.kind = "batch" /\ f.mode = "RGB"

\* C26: create_previews and adjust_crop agree on the sources they can
\* preview: when adjust_crop(ratio, 0, 0) writes the preview of a ratio for a
\* source, the entry create_previews has returned for that ratio of the same
\* source, with nothing else going wrong, is a url entry and not an error
\* entry, whatever the mode and the size of the source.
C26_PreviewsAgree ==
    [][(/\ ret.op = "create_previews"
        /\ calls' = calls + 1
        /\ ret'.op = "adjust_crop"
        /\ ret'.offsets = <<0, 0>>
        /\ ret'.value # None
        /\ ret.fail[ret'.ratio] = "ok") =>
           "url" \in DOMAIN ret.value[ret'.ratio]]_vars

(***************************************************************************)
(* _resize_if_too_large on uploads of many sizes: what each method does     *)
(* with the image it has just opened, before it crops.                      *)
(***************************************************************************)

\* how many pixels beyond each of the two limits the sides go, one by one
MaxExcess == 2

ResizeSides ==
    {1, 2, 3000, 5999, 7999, 9000, 12000, 100000}
        \cup {MAX_SOURCE_DIMENSION + d : d \in 0..MaxExcess}
        \cup {MAX_MEMORY_SAFE_DIMENSION + d : d \in 0..MaxExcess}

ResizeSources == {<<w, h>> : w \in ResizeSides, h \in ResizeSides}

InitResize ==
    /\ CropIdle
    /\ AppIdle
    /\ fs \in {{OriginalFile("3f2a9c1e-a", Photo, size)} : size \in ResizeSources}
    /\ proc = UploadProcessor("3f2a9c1e-a", Photo)
    /\ ret = NoCall
    /\ calls = 0

\* img = self._resize_if_too_large(img) on the image opened from image_path
CallResizeIfTooLarge ==
    /\ calls < MaxCalls
    /\ CanOpen(fs, proc)
    /\ \E size \in {LookupFile(fs, proc.processed_folder, proc.image_path).size} :
           ret' = [op |-> "_resize_if_too_large", size |-> size,
                   value |-> ResizeIfTooLarge(size)]
    /\ calls' = calls + 1
    /\ UNCHANGED <<fs, proc, cropVars, appVars>>

NextResize == CallResizeIfTooLarge

SpecResize == InitResize /\ [][NextResize]_vars

\* the bound the claim applies to a source size: 8000 if a side exceeds 8000,
\* else 6000 if a side exceeds 6000, else none (0)
BoundFor(size) ==
    IF Max(size[1], size[2]) > 8000 THEN 8000
    ELSE IF Max(size[1], size[2]) > 6000 THEN 6000
    ELSE 0

\* side new_side is side scaled by bound / larger and truncated to a whole
\* pixel
ScaledWithinOnePixel(new_side, side, larger, bound) ==
    /\ new_side * larger <= bound * side
    /\ bound * side < (new_side + 1) * larger

InitSeq ==
    /\ CropIdle
    /\ AppIdle
    /\ fs \in {{OriginalFile("3f2a9c1e-a", Photo, size)} : size \in ProcSources}
    /\ proc = UploadProcessor("3f2a9c1e-a", Photo)
    /\ ret = NoCall
    /\ calls = 0

Processing == ret.op = "processing"

\* the ratio of the round the loop is in
RoundRatio == RatioNames[ret.i]

\* the with block left without the image being closed
KeepOpen(open, ratio) == open

\* the end of the with block of a round, however it is left: __exit__ closes
\* the image Image.open returned
CloseSource(open, ratio) == open \ {ratio}

\* the loop goes to its next round: the with block is left, by its end, by
\* continue or by an exception
NextRound(r) ==
    [r EXCEPT !.i = r.i + 1, !.at = "next",
              !.open = CloseSource(r.open, RatioNames[r.i]),
              !.done = Append(r.done, RatioNames[r.i]),
              !.size = <<>>, !.box = None]

\* process_all_ratios(adjustments) up to the head of its loop
BeginBatch(adjustments) ==
    /\ ~Processing
    /\ calls < MaxCalls
    /\ calls' = calls + 1
    /\ ret' = [op |-> "processing", adjustments |-> adjustments, i |-> 1,
               at |-> "next", open |-> {}, done |-> <<>>, out |-> <<>>,
               size |-> <<>>, box |-> None]
    /\ UNCHANGED <<fs, proc, cropVars, appVars>>

\* with Image.open(self.image_path) as img: the source is opened, or the
\* open raises and the round is over
OpenSource(outcome) ==
    /\ Processing
    /\ ret.at = "next"
    /\ ret.i <= Len(RatioNames)
    /\ IF outcome = "open" \/ ~CanOpen(fs, proc)
       THEN ret' = [ret EXCEPT !.i = ret.i + 1,
                               !.done = Append(ret.done, RoundRatio)]
       ELSE ret' = [ret EXCEPT !.at = "opened",
                               !.open = ret.open \cup {RoundRatio},
                               !.size = LookupFile(fs, proc.processed_folder,
                                                   proc.image_path).size]
    /\ UNCHANGED <<fs, proc, calls, cropVars, appVars>>

\* img = self._resize_if_too_large(img)
GuardSource ==
    /\ Processing
    /\ ret.at = "opened"
    /\ ret' = [ret EXCEPT !.at = "guarded", !.size = ResizeIfTooLarge(ret.size)]
    /\ UNCHANGED <<fs, proc, calls, cropVars, appVars>>

\* crop_image = self._calculate_crop(...); without a crop the round is over
CropSource ==
    /\ Processing
    /\ ret.at = "guarded"
    /\ \E box \in {CropOfSize(ret.size, RoundRatio,
                              OffsetsOf(ret.adjustments, RoundRatio))} :
           IF box = None THEN ret' = NextRound(ret)
           ELSE ret' = [ret EXCEPT !.at = "cropped", !.box = box]
    /\ UNCHANGED <<fs, proc, calls, cropVars, appVars>>

\* resized = crop_image.resize((width, height), LANCZOS)
ResizeCrop ==
    /\ Processing
    /\ ret.at = "cropped"
    /\ ret' = [ret EXCEPT !.at = "resized",
                          !.size = Resize(ret.box, RATIOS[RoundRatio])]
    /\ UNCHANGED <<fs, proc, calls, cropVars, appVars>>

\* resized.save(output_path, 'JPEG', ...): the file is written and the name
\* appended to output_files, or the save raises and the round is over
SaveOutput(outcome) ==
    /\ Processing
    /\ ret.at = "resized"
    /\ IF outcome = "save"
       THEN /\ fs' = SaveFailed(fs, proc.processed_folder,
                                BatchName(proc.image_path, RoundRatio))
            /\ ret' = NextRound(ret)
       ELSE /\ fs' = WriteFile(fs, Rendered(proc.processed_folder,
                                            BatchName(proc.image_path, RoundRatio),
                                            "batch", ret.size, ret.box,
                                            Convert(SourceMode(fs, proc))))
            /\ ret' = [ret EXCEPT !.at = "written",
                                  !.out = Append(ret.out,
                                                 BatchName(proc.image_path,
                                                           RoundRatio))]
    /\ UNCHANGED <<proc, calls, cropVars, appVars>>

\* the end of the with block after the save
EndRound ==
    /\ Processing
    /\ ret.at = "written"
    /\ ret' = NextRound(ret)
    /\ UNCHANGED <<fs, proc, calls, cropVars, appVars>>

\* return output_files, after the last round
EndBatch ==
    /\ Processing
    /\ ret.at = "next"
    /\ ret.i > Len(RatioNames)
    /\ ret' = [op |-> "process_all_ratios", adjustments |-> ret.adjustments,
               done |-> ret.done, value |-> ret.out]
    /\ UNCHANGED <<fs, proc, calls, cropVars, appVars>>

NextSeq ==
    \/ \E adjustments \in ProcAdjustments : BeginBatch(adjustments)
    \/ \E outcome \in {"ok", "open"} : OpenSource(outcome)
    \/ GuardSource
    \/ CropSource
    \/ ResizeCrop
    \/ \E outcome \in {"ok", "save"} : SaveOutput(outcome)
    \/ EndRound
    \/ EndBatch

SpecSeq == InitSeq /\ [][NextSeq]_vars

\* the ratios whose source image is open
OpenSources == IF Processing THEN ret.open ELSE {}

\* the ratios whose round is over, in the order in which they ended
RoundsDone == IF ret.op \in {"processing", "process_all_ratios"} THEN ret.done ELSE <<>>

\* C21: within one call of process_all_ratios the ratios are processed one
\* after another in the order 2x3, 3x4, 4x5, ISO, 11x14: when the source is
\* opened for a ratio no other source is open and the rounds of exactly the
\* ratios before it are over, each round ends with its source closed, and at
\* most one opened source exists at any time.
C21_OneRatioAtATime ==
    [][/\ Cardinality(OpenSources') <= 1
       /\ RoundsDone' \in {SubSeq(RatioNames, 1, n) : n \in 0..Len(RatioNames)}
       /\ \A r \in OpenSources' \ OpenSources :
              /\ OpenSources = {}
              /\ r = RatioNames[Len(RoundsDone) + 1]
              /\ RoundsDone' = RoundsDone
       /\ Len(RoundsDone') > Len(RoundsDone) => OpenSources' = {}]_vars

\* the source is open for ISO, the fourth ratio, after the rounds of the three
\* before it, of which all have written their file
C21_Witness ==
    /\ Processing
    /\ ret.open = {"ISO"}
    /\ ret.at = "resized"
    /\ ret.done = <<"2x3", "3x4", "4x5">>
    /\ Len(ret.out) = 3

(***************************************************************************)
(* The request handlers of app.py: upload_file, adjust_crop, download_all   *)
(* and cleanup_session, at most MaxRequests requests in all.  Inside the   *)
(* handlers no image operation raises; the memory check passes or not; the *)
(* sessions are younger than the hour after which cleanup_old_sessions     *)
(* removes a directory.                                                    *)
(***************************************************************************)

MaxRequests == 2

UploadSizes == {<<4000, 3000>>, <<3, 1>>}

Scan == FileName(<<"my", "scan">>, "png")

Notes == FileName(<<"notes">>, "txt")

UploadNames == {Photo, Scan, Notes}

RequestOffsets == {<<0, 0>>, <<50, 0 - 29>>}

RequestAdjustments == {<<>>, "2x3" :> <<50, 0 - 29>>}

ALLOWED_EXTENSIONS == {"png", "jpg", "jpeg", "tiff", "tif"}

\* allowed_file, on names whose extension is in lower case
AllowedFile(name) == name.ext \in ALLOWED_EXTENSIONS

\* the endings the adjust and download handlers look for in the listing
ImageEndings == {"jpg", "jpeg", "png", "tiff", "tif"}

\* the files among which the loop over os.listdir(session_dir) stops at the
\* first one: those of the directory that end like an image.  The order of
\* os.listdir is arbitrary, so the first one can be any of them.
SourceCandidates(files, dir) ==
    {f \in files : f.dir = dir /\ f.name.ext \in ImageEndings}

NoSource == File(<<>>, FileName(<<>>, ""), "none", <<0, 0>>)

AllOk == [r \in Ratios |-> "ok"]

\* original_filename of download_all: the parts of the file's name from the
\* third on if there are three, else the whole name
OriginalFilename(name) ==
    IF Len(name.parts) >= 3
    THEN FileName(SubSeq(name.parts, 3, Len(name.parts)), name.ext)
    ELSE name

\* zip_filename of download_all
ZipFilename(name, session_id) ==
    IF OriginalFilename(name).parts = <<>>
    THEN FileName(<<"aspect", "ratios", FirstEight(session_id)>>, "zip")
    ELSE FileName(Append(OriginalFilename(name).parts, "printready"), "zip")

Respond(op, session_id, status, source, body) ==
    [op |-> op, session_id |-> session_id, status |-> status,
     source |-> source, body |-> body]

\* upload_file once the upload is accepted: the file is saved, then the
\* previews are made unless the second memory check fails
SaveUpload(session_id, upload, size, safe) ==
    /\ sessions' = sessions \cup {session_id}
    /\ proc' = UploadProcessor(session_id, upload)
    /\ IF ~safe
       THEN /\ fs' = WriteFile(fs, OriginalFile(session_id, upload, size))
            /\ response' = Respond("upload", session_id, 507, NoSource, <<>>)
            /\ UNCHANGED <<ret, calls>>
       ELSE \E r \in {CreatePreviews(
                          WriteFile(fs, OriginalFile(session_id, upload, size)),
                          UploadProcessor(session_id, upload), AllOk)} :
                /\ fs' = r.fs
                /\ ret' = [op |-> "create_previews", fail |-> AllOk,
                           value |-> r.previews]
                /\ calls' = calls + 1
                /\ response' = Respond("upload", session_id, 200, NoSource,
                                       r.previews)

\* POST /upload
UploadFile(session_id, upload, size, safe_before, safe_after) ==
    /\ requests < MaxRequests
    /\ session_id \notin sessions
    /\ requests' = requests + 1
    /\ IF ~safe_before
       THEN /\ response' = Respond("upload", "", 503, NoSource, <<>>)
            /\ UNCHANGED <<procVars, sessions>>
       ELSE IF ~AllowedFile(upload)
            THEN /\ response' = Respond("upload", "", 400, NoSource, <<>>)
                 /\ UNCHANGED <<procVars, sessions>>
       ELSE SaveUpload(session_id, upload, size, safe_after)
    /\ UNCHANGED cropVars

\* adjust_crop of app.py once a source is found
AdjustWith(session_id, source, ratio, offsets) ==
    /\ proc' = ImageProcessor(source.name, session_id, TempDirectory(session_id))
    /\ \E r \in {AdjustCrop(fs, ImageProcessor(source.name, session_id,
                                               TempDirectory(session_id)),
                            ratio, offsets, "ok")} :
           /\ fs' = r.fs
           /\ ret' = [op |-> "adjust_crop", ratio |-> ratio, offsets |-> offsets,
                      outcome |-> "ok", value |-> r.value]
           /\ response' = Respond("adjust", session_id,
                                  IF r.value = None THEN 500 ELSE 200,
                                  source, r.value)
    /\ calls' = calls + 1

\* POST /adjust
AdjustRequest(session_id, ratio, offsets, safe) ==
    /\ requests < MaxRequests
    /\ requests' = requests + 1
    /\ IF ~safe
       THEN /\ response' = Respond("adjust", session_id, 503, NoSource, <<>>)
            /\ UNCHANGED procVars
       ELSE IF SourceCandidates(fs, TempDirectory(session_id)) = {}
            THEN /\ response' = Respond("adjust", session_id, 404, NoSource, <<>>)
                 /\ UNCHANGED procVars
       ELSE \E source \in SourceCandidates(fs, TempDirectory(session_id)) :
                AdjustWith(session_id, source, ratio, offsets)
    /\ UNCHANGED <<cropVars, sessions>>

\* the members of the ZIP: the output files, then the guide if it is there
ZipMembers(output_files, guide) ==
    IF guide THEN Append(output_files, FileName(<<"Printing", "Guide">>, "pdf"))
    ELSE output_files

\* download_all without the check of output_files: it zips what there is,
\* be it the guide alone
DownloadWithAnyOutput(session_id, source, adjustments, guide) ==
    /\ proc' = ImageProcessor(source.name, session_id, TempDirectory(session_id))
    /\ \E r \in {ProcessAllRatios(fs, ImageProcessor(source.name, session_id,
                                                     TempDirectory(session_id)),
                                  adjustments, AllOk)} :
           /\ ret' = [op |-> "process_all_ratios", adjustments |-> adjustments,
                      fail |-> AllOk, value |-> r.out]
           /\ fs' = WriteFile(r.fs, File(TempDirectory(session_id),
                                         ZipFilename(source.name, session_id),
                                         "zip", <<0, 0>>))
           /\ response' = Respond("download", session_id, 200, source,
                                  [download_name |->
                                       ZipFilename(source.name, session_id),
                                   members |-> ZipMembers(r.out, guide)])
    /\ calls' = calls + 1

\* download_all once a source is found
DownloadWith(session_id, source, adjustments, guide) ==
    /\ proc' = ImageProcessor(source.name, session_id, TempDirectory(session_id))
    /\ \E r \in {ProcessAllRatios(fs, ImageProcessor(source.name, session_id,
                                                     TempDirectory(session_id)),
                                  adjustments, AllOk)} :
           /\ ret' = [op |-> "process_all_ratios", adjustments |-> adjustments,
                      fail |-> AllOk, value |-> r.out]
           /\ IF r.out = <<>>
              THEN /\ fs' = r.fs
                   /\ response' = Respond("download", session_id, 500, source, <<>>)
              ELSE /\ fs' = WriteFile(r.fs,
                                      File(TempDirectory(session_id),
                                           ZipFilename(source.name, session_id),
                                           "zip", <<0, 0>>))
                   /\ response' = Respond("download", session_id, 200, source,
                                          [download_name |->
                                               ZipFilename(source.name, session_id),
                                           members |-> ZipMembers(r.out, guide)])
    /\ calls' = calls + 1

\* POST /download
DownloadAll(session_id, adjustments, safe, guide) ==
    /\ requests < MaxRequests
    /\ requests' = requests + 1
    /\ IF ~safe
       THEN /\ response' = Respond("download", session_id, 507, NoSource, <<>>)
            /\ UNCHANGED procVars
       ELSE IF SourceCandidates(fs, TempDirectory(session_id)) = {}
            THEN /\ response' = Respond("download", session_id, 404, NoSource, <<>>)
                 /\ UNCHANGED procVars
       ELSE \E source \in SourceCandidates(fs, TempDirectory(session_id)) :
                DownloadWith(session_id, source, adjustments, guide)
    /\ UNCHANGED <<cropVars, sessions>>

\* POST /cleanup
CleanupSession(session_id) ==
    /\ requests < MaxRequests
    /\ requests' = requests + 1
    /\ fs' = {f \in fs : f.dir # TempDirectory(session_id)}
    /\ response' = Respond("cleanup", session_id, 200, NoSource, <<>>)
    /\ UNCHANGED <<proc, ret, calls, cropVars, sessions>>

Init ==
    /\ CropIdle
    /\ ProcIdle
    /\ AppIdle

Next ==
    \/ \E session_id \in SessionIds, upload \in UploadNames, size \in UploadSizes,
          safe_before \in BOOLEAN, safe_after \in BOOLEAN :
           UploadFile(session_id, upload, size, safe_before, safe_after)
    \/ \E session_id \in SessionIds, ratio \in Ratios \cup {InvalidRatio},
          offsets \in RequestOffsets, safe \in BOOLEAN :
           AdjustRequest(session_id, ratio, offsets, safe)
    \/ \E session_id \in SessionIds, adjustments \in RequestAdjustments,
          safe \in BOOLEAN, guide \in BOOLEAN :
           DownloadAll(session_id, adjustments, safe, guide)
    \/ \E session_id \in SessionIds : CleanupSession(session_id)

Spec == Init /\ [][Next]_vars

\* C9: whatever upload, adjust and download requests a session has seen, the
\* file the adjust handler and the download handler take as the source image
\* is the session's original upload, never a preview, an adjusted output or a
\* batch output.
C9_SourceIsOriginalUpload ==
    (response.op \in {"adjust", "download"} /\ response.source # NoSource) =>
        /\ response.source.kind = "original"
        /\ response.source.dir = TempDirectory(response.session_id)
        /\ response.source.name.parts[1] = response.session_id

\* the ZIP files on disk
ZipFiles(files) == {f \in files : f.kind = "zip"}

\* C14: when process_all_ratios returns no output file, download_all answers
\* with status 500 and a body that is no ZIP, and writes no ZIP file, whether
\* the printing guide is there or not; a ZIP is sent only with at least one
\* output in it.
C14_NoOutputIsAnError ==
    [][(/\ requests' = requests + 1
        /\ response'.op = "download"
        /\ response'.source # NoSource) =>
          /\ ret'.op = "process_all_ratios"
          /\ ret'.value = <<>> =>
                /\ response'.status = 500
                /\ response'.body = <<>>
                /\ ZipFiles(fs') = ZipFiles(fs)
          /\ response'.status = 200 =>
                /\ ret'.value # <<>>
                /\ response'.body.members[1] = ret'.value[1]]_vars

\* the download of a session whose upload is 3 x 1 pixels: no ratio has a
\* crop, the answer is 500
C14_Witness ==
    /\ response.op = "download"
    /\ response.status = 500
    /\ response.source.kind = "original"
    /\ response.source.size = <<3, 1>>
    /\ ret.op = "process_all_ratios"
    /\ ret.value = <<>>
    /\ ZipFiles(fs) = {}

\* the sanitized name N of an upload stored as
\* {session_id}_{YYYYMMDD}_{HHMMSS}_{N}: what follows the session id and the two
\* parts of the timestamp
UploadedName(stored) ==
    FileName(SubSeq(stored.parts, 2 + Len(Timestamp), Len(stored.parts)), stored.ext)

\* C17: when download_all works on an upload stored as
\* {session_id}_{YYYYMMDD}_{HHMMSS}_{N}, the ZIP it sends is named
\* {stem of N}_printready.zip.
C17_ZipNamedAfterUpload ==
    (/\ response.op = "download"
     /\ response.status = 200
     /\ response.source.kind = "original") =>
        response.body.download_name =
            FileName(Append(UploadedName(response.source.name).parts, "printready"),
                     "zip")

(***************************************************************************)
(* adjust_crop next to a reader.  The server runs its handlers in threads, *)
(* so GET /preview/<filename> can be served at any point of a running      *)
(* adjust_crop.  image.save(path) opens the file at path for writing,      *)
(* which creates or truncates it there, and then writes the encoded image  *)
(* into it: the two are steps of their own here, for the full-size file    *)
(* and for the preview.  ret holds the call that is under way.             *)
(***************************************************************************)

\* the session of the upload, its five previews made
InitSave ==
    /\ CropIdle
    /\ sessions = {"3f2a9c1e-a"}
    /\ fs \in {CreatePreviews({OriginalFile("3f2a9c1e-a", Photo, size)},
                              UploadProcessor("3f2a9c1e-a", Photo), AllOk).fs :
                   size \in ProcSources}
    /\ proc = UploadProcessor("3f2a9c1e-a", Photo)
    /\ ret = NoCall
    /\ calls = 0
    /\ response = NoRequest
    /\ requests = 0

\* builtins.open(path, "w+b") in save: from now on the name holds a file that
\* is empty or cut short
OpenForWriting(files, dir, name) == WriteFile(files, File(dir, name, "partial", <<0, 0>>))

Saving == ret.op = "saving"

\* adjust_crop up to the point where save has opened the full-size file; with
\* a ratio that is not known or without a crop it returns None at once
BeginAdjust(ratio, offsets) ==
    /\ ~Saving
    /\ calls < MaxCalls
    /\ calls' = calls + 1
    /\ IF ratio \notin DOMAIN RATIOS \/ SourceCrop(fs, proc, ratio, offsets) = None
       THEN /\ ret' = [op |-> "adjust_crop", ratio |-> ratio, offsets |-> offsets,
                       outcome |-> "ok", value |-> None]
            /\ fs' = fs
       ELSE /\ ret' = [op |-> "saving", ratio |-> ratio, offsets |-> offsets,
                       at |-> "adjusted",
                       box |-> SourceCrop(fs, proc, ratio, offsets)]
            /\ fs' = OpenForWriting(fs, proc.processed_folder,
                                    AdjustedName(proc.session_id, ratio))
    /\ UNCHANGED <<proc, cropVars, appVars>>

\* the full-size file is written out and closed
WriteAdjusted ==
    /\ Saving
    /\ ret.at = "adjusted"
    /\ fs' = WriteFile(fs, Rendered(proc.processed_folder,
                                    AdjustedName(proc.session_id, ret.ratio),
                                    "adjusted", RATIOS[ret.ratio], ret.box,
                                    Convert(SourceMode(fs, proc))))
    /\ ret' = [ret EXCEPT !.at = "thumbnail"]
    /\ UNCHANGED <<proc, calls, cropVars, appVars>>

\* save has opened the preview's file
OpenPreview ==
    /\ Saving
    /\ ret.at = "thumbnail"
    /\ fs' = OpenForWriting(fs, proc.processed_folder,
                            PreviewName(proc.session_id, ret.ratio))
    /\ ret' = [ret EXCEPT !.at = "preview"]
    /\ UNCHANGED <<proc, calls, cropVars, appVars>>

\* the preview is written out and closed, adjust_crop returns its name
WritePreview ==
    /\ Saving
    /\ ret.at = "preview"
    /\ fs' = WriteFile(fs, Rendered(proc.processed_folder,
                                    PreviewName(proc.session_id, ret.ratio),
                                    "preview", Thumbnail(RATIOS[ret.ratio]),
                                    ret.box, Convert(SourceMode(fs, proc))))
    /\ ret' = [op |-> "adjust_crop", ratio |-> ret.ratio, offsets |-> ret.offsets,
               outcome |-> "ok", value |-> PreviewName(proc.session_id, ret.ratio)]
    /\ UNCHANGED <<proc, calls, cropVars, appVars>>

\* the files get_preview can find for a file name: the one of that name in
\* any directory ara_*
PreviewCandidates(files, filename) ==
    {f \in files : f.dir[1] = "ara" /\ f.name = filename}

\* GET /preview/<filename>: the file is sent as it is on disk at that moment
GetPreview(filename) ==
    /\ requests < MaxRequests
    /\ requests' = requests + 1
    /\ IF PreviewCandidates(fs, filename) = {}
       THEN response' = Respond("preview", "", 404, NoSource, <<>>)
       ELSE \E f \in PreviewCandidates(fs, filename) :
                response' = Respond("preview", "", 200, f, f.kind)
    /\ UNCHANGED <<cropVars, procVars, sessions>>

NextSave ==
    \/ \E ratio \in Ratios \cup {InvalidRatio}, offsets \in AdjustOffsets :
           BeginAdjust(ratio, offsets)
    \/ WriteAdjusted
    \/ OpenPreview
    \/ WritePreview
    \/ \E r \in Ratios, ending \in {"preview", "adjusted"} :
           GetPreview(FileName(<<proc.session_id, r, ending>>, "jpg"))

SpecSave == InitSave /\ [][NextSave]_vars

\* C18: a reader served by GET /preview/<filename> while adjust_crop runs
\* never gets a file that is only partly written: what it finds under an
\* artifact's name is nothing (404) or one complete image.
C18_NeverPartlyWritten ==
    (response.op = "preview" /\ response.status = 200) =>
        response.source.kind # "partial"

\* a file that carries a session's id at the head of its name, as the upload,
\* the previews and the adjusted outputs of the session do
OwnedBy(f, session_id) == Len(f.name.parts) > 0 /\ f.name.parts[1] = session_id

\* C12: for any two distinct session ids, no request served for one session
\* reads as its source, overwrites or deletes a file of the other: across a
\* request for one session, every file of another session stays as it is and
\* is not the source.
C12_SessionsNeverCollide ==
    [][\A other \in SessionIds \ {response'.session_id} :
           /\ \A f \in fs : OwnedBy(f, other) => f \in fs'
           /\ response'.source # NoSource => ~OwnedBy(response'.source, other)]_vars

====
